---- MODULE Spec2Model ----
(***************************************************************************)
(* Battleship-Plus: the network session layer (common/network.py) and the  *)
(* battlefield (common/battlefield/Battlefield.py, battleship/Battleship.py)*)
(* as state machines.                                                      *)
(*                                                                         *)
(* NetSpec   : BattleshipServer, BattleshipServerClient, BattleshipClient  *)
(*             and the receive tasks they create on the asyncio loop.      *)
(* TrafficSpec: the server, its accepted connections and the frames their  *)
(*             peers write, every connection for itself.                   *)
(* FieldSpec : one Battlefield with its list of ships and its matrices.    *)
(*                                                                         *)
(* protocol.py (parse_from_stream, ProtocolMessage) and battleship/Ship.py *)
(* are not among the sources; what the model needs of them is taken from   *)
(* the specification and is marked so where it is defined.                 *)
(***************************************************************************)
EXTENDS Integers, Sequences, FiniteSets, TLC

VARIABLES
    role,             \* what the process runs: the server or a client
    next_client_id,   \* BattleshipServerClient.next_client_id (class attribute)
    srv,              \* per BattleshipServer: self.port, self.server, its sockets, start()/stop() in progress
    clients,          \* per BattleshipServer: self.clients, a dict task -> client id
    tasks,            \* every receive task created so far, in creation order
    cl,               \* the BattleshipClient object
    ship_bounds,      \* Ship: the side of the grid that move validates against
    nOps,             \* Battlefield: calls made so far
    ships,            \* Battlefield._ships
    my_battlefield,   \* Battlefield._my_battlefield
    enemy_battlefield, \* Battlefield._enemy_battlefield
    lastOp            \* the last Battlefield call and its return value

vars == <<role, next_client_id, srv, clients, tasks, cl, ship_bounds, nOps, ships,
          my_battlefield, enemy_battlefield, lastOp>>
netVars == <<role, next_client_id, srv, clients, tasks, cl>>
fieldVars == <<ship_bounds, nOps, ships, my_battlefield, enemy_battlefield, lastOp>>

----------------------------------------------------------------------------
(* Bounds of the model *)

\* Battleship.__init__: the extents of a Battleship
BattleshipXLength == 5
BattleshipYLength == 1

\* receive tasks (accepted plus opened connections) created in one run
MaxTasks == 2
\* frames written by the peer of one connection
MaxFrames == 2
\* calls of send(), all connections together
MaxSends == 2
\* calls of start() and stop(), all servers together
MaxCalls == 3
\* calls of start(), stop() and send() and frames written, all together
MaxInputs == 4
\* side of the battlefield: the smallest in which a Battleship can move sideways
FieldLen == BattleshipXLength + 1
\* the lengths a Battlefield is constructed with
Lengths == {FieldLen, FieldLen + 1}
\* calls made on the battlefield in one run
MaxOps == 3
\* ships of the battlefield
MaxShips == 2
\* how far below zero the coordinates offered to shoot go
MaxShotBack == 2

\* coordinates offered to shoot: the grid, one cell past it, and the negative
\* indices a Python list of two elements accepts
ShotCoords == (-MaxShotBack)..FieldLen

Servers == {"A", "B"}

\* the port each BattleshipServer is constructed with: 0, for any free port,
\* or a fixed one
Ports == [s \in Servers |-> IF s = "A" THEN "any" ELSE "fixed"]

\* what the owner hands over as message callback: a coroutine function, or a
\* plain function (whose result cannot be awaited)
CallbackKinds == {"coroutine", "plain"}

----------------------------------------------------------------------------
(* Helpers *)

TaskIds == 1..Len(tasks)

DictDel(d, k) == [x \in DOMAIN d \ {k} |-> d[x]]

DictPut(d, k, v) == [x \in DOMAIN d \cup {k} |-> IF x = k THEN v ELSE d[x]]

IsPrefix(p, s) == Len(p) =< Len(s) /\ \A i \in 1..Len(p) : p[i] = s[i]

\* inspect.iscoroutinefunction on the kinds of callable
iscoroutinefunction(kind) == kind = "coroutine"

----------------------------------------------------------------------------
(* The receive task of one connection: parse_from_stream(reader, writer,   *)
(* msg_callback) run as an asyncio.Task.                                   *)

\* A frame on the wire: the seq-th message written on connection conn, or
\* bytes that do not decode (ok = FALSE).
Frame(t, n, good) == [conn |-> t, seq |-> n, ok |-> good]

\* What the codec makes of a frame: the message, or a ProtocolError.
Decode(f) == IF f.ok THEN <<f.conn, f.seq>> ELSE "ProtocolError"

\* The messages the peer has written on connection t, in the order written.
Sent(t) == [i \in 1..tasks[t].nsent |-> <<t, i>>]

FramesWritten ==
    LET RECURSIVE Sum(_)
        Sum(n) == IF n = 0 THEN 0 ELSE tasks[n].nframes + Sum(n - 1)
    IN  Sum(Len(tasks))

SendCalls ==
    LET RECURSIVE Sum(_)
        Sum(n) == IF n = 0 THEN 0 ELSE tasks[n].out + tasks[n].refused + Sum(n - 1)
    IN  Sum(Len(tasks))

\* The calls of start() and stop() made so far, all servers together.
Calls ==
    LET RECURSIVE Sum(_)
        Sum(S) == IF S = {} THEN 0
                  ELSE LET s == CHOOSE x \in S : TRUE
                       IN  srv[s].calls + Sum(S \ {s})
    IN  Sum(Servers)

\* What the program and its peers have done so far: calls of start(), stop()
\* and send(), and frames written.
Inputs == Calls + FramesWritten + SendCalls

\* asyncio.Task(parse_from_stream(...)): a task that has not run yet. connSaw
\* and discSaw record whether the registry held the task's entry when
\* client_connected_callback and the external disconnect callback were called.
NewTask(side, owner, id, kind) ==
    [side |-> side, owner |-> owner, id |-> id, kind |-> kind,
     doneCb |-> FALSE, state |-> "running", cause |-> "none",
     inbox |-> <<>>, nsent |-> 0, nframes |-> 0, received |-> <<>>,
     peerEof |-> FALSE, writerClosed |-> FALSE,
     notified |-> 0, out |-> 0, refused |-> 0,
     connSaw |-> FALSE, discSaw |-> FALSE]

\* Task.add_done_callback on a task that is still running.
add_done_callback(task) == [task EXCEPT !.doneCb = TRUE]

\* The task's coroutine returns or raises: the loop schedules the done
\* callbacks (call_soon) if there are any. No done callback of network.py
\* closes the writer, which stays as it was.
TaskEnds(task, why) ==
    [task EXCEPT !.state = IF task.doneCb THEN "finishing" ELSE "done",
                 !.cause = why]

\* The peer writes one more frame on connection t: a message or garbage.
PeerWrite(t, good) ==
    /\ tasks[t].state = "running"
    /\ ~tasks[t].peerEof
    /\ tasks[t].nframes < MaxFrames
    /\ LET n == tasks[t].nsent + 1 IN
       tasks' = [tasks EXCEPT
                    ![t].inbox = Append(@, Frame(t, n, good)),
                    ![t].nsent = IF good THEN n ELSE @,
                    ![t].nframes = @ + 1]
    /\ UNCHANGED <<role, next_client_id, srv, clients, cl, fieldVars>>

\* The peer writes while the joint budget of the run lasts.
PeerWriteWithin(t, good) ==
    /\ Inputs < MaxInputs
    /\ PeerWrite(t, good)

\* The peer closes its end of connection t (or the connection is reset).
PeerClose(t) ==
    /\ tasks[t].state = "running"
    /\ ~tasks[t].peerEof
    /\ tasks' = [tasks EXCEPT ![t].peerEof = TRUE]
    /\ UNCHANGED <<role, next_client_id, srv, clients, cl, fieldVars>>

\* The closure variable external_msg_callback of the _accept_client call that
\* created task t: the handler client_connected_callback returned for t.
external_msg_callbackShared(t) == Len(tasks)

external_msg_callback(t) == t

\* Task t awaits the message handler of connection h on msg: the handler is
\* called with msg; awaiting the result of a plain function raises TypeError
\* inside the task.
AwaitHandler(ts, t, h, msg) ==
    LET got == [ts EXCEPT ![h].received = Append(@, msg)]
    IN  IF iscoroutinefunction(ts[t].kind)
        THEN got
        ELSE [got EXCEPT ![t] = TaskEnds(got[t], "callback")]

\* internal_msg_callback(msg) of task t: await external_msg_callback(msg).
internal_msg_callback(ts, t, msg) ==
    AwaitHandler(ts, t, external_msg_callback(t), msg)

\* The msg_callback given to parse_from_stream: internal_msg_callback on the
\* server, self.msg_callback of the BattleshipClient on the client.
msg_callback(ts, t, msg) ==
    IF ts[t].side = "server"
    THEN internal_msg_callback(ts, t, msg)
    ELSE AwaitHandler(ts, t, t, msg)

\* parse_from_stream decodes the next frame and awaits the message callback.
RecvMessage(t) ==
    /\ tasks[t].state = "running"
    /\ tasks[t].inbox # <<>>
    /\ Head(tasks[t].inbox).ok
    /\ tasks' = msg_callback([tasks EXCEPT ![t].inbox = Tail(@)], t,
                             Decode(Head(tasks[t].inbox)))
    /\ UNCHANGED <<role, next_client_id, srv, clients, cl, fieldVars>>

\* parse_from_stream meets bytes that do not decode: the task ends.
RecvGarbage(t) ==
    /\ tasks[t].state = "running"
    /\ tasks[t].inbox # <<>>
    /\ Decode(Head(tasks[t].inbox)) = "ProtocolError"
    /\ tasks' = [tasks EXCEPT ![t] = TaskEnds(@, "decode")]
    /\ UNCHANGED <<role, next_client_id, srv, clients, cl, fieldVars>>

\* parse_from_stream reads end-of-stream after the last frame: the task ends.
RecvEof(t) ==
    /\ tasks[t].state = "running"
    /\ tasks[t].inbox = <<>>
    /\ tasks[t].peerEof
    /\ tasks' = [tasks EXCEPT ![t] = TaskEnds(@, "eof")]
    /\ UNCHANGED <<role, next_client_id, srv, clients, cl, fieldVars>>

\* The writer was closed locally: the pending read is unblocked and the task
\* ends; frames not yet read are not delivered.
RecvClosed(t) ==
    /\ tasks[t].state = "running"
    /\ tasks[t].writerClosed
    /\ tasks' = [tasks EXCEPT ![t] = TaskEnds(@, "closed")]
    /\ UNCHANGED <<role, next_client_id, srv, clients, cl, fieldVars>>

\* ProtocolMessage.send(writer): serialize and write to the writer. A writer
\* that close() was called on has given up its transport: the bytes do not
\* reach the stream and the call fails.
MsgSend(task) ==
    IF task.writerClosed
    THEN [task EXCEPT !.refused = @ + 1]
    ELSE [task EXCEPT !.out = @ + 1]

----------------------------------------------------------------------------
(* BattleshipServerClient and BattleshipServer *)

\* BattleshipServerClient.__init__: the id is the class counter, which is then
\* incremented. The result is <<id of the new record, new counter>>.
BattleshipServerClient_initNoIncrement(counter) == <<counter, counter>>

BattleshipServerClient_init(counter) == <<counter, counter + 1>>

\* start() and stop() hand control to the loop (run_until_complete) and go on
\* when it returns; while one of them is in the loop, the callbacks of every
\* session run. A call made from the top level of the program finds no other
\* such call in progress.
NoStopRunning == \A s \in Servers : srv[s].pc = "idle"

\* A socket of instance s listens: the one self.server refers to, one that an
\* earlier start() bound and a later start() replaced in self.server, or the
\* one a start() in progress has bound.
Listens(s) == srv[s].listening \/ srv[s].leaked \/ srv[s].pc = "start_listening"

\* Connections for which asyncio has made the transport, so that the call of
\* _accept_client is scheduled on the loop, and which it has not made yet.
Pending ==
    LET RECURSIVE Sum(_)
        Sum(S) == IF S = {} THEN 0
                  ELSE LET s == CHOOSE x \in S : TRUE
                       IN  srv[s].pending + Sum(S \ {s})
    IN  Sum(Servers)

\* run_until_complete is entered: the calls of _accept_client scheduled by
\* now, of every server on the loop, are made in this run of the loop, before
\* it returns; those scheduled during the run may be left for later.
RunLoop(sv) == [s \in Servers |-> [sv[s] EXCEPT !.due = sv[s].pending]]

NoneDue == \A s \in Servers : srv[s].due = 0

\* BattleshipServer.start(), line 92: run_until_complete(start_server(...)) is
\* entered. Nothing looks at self.server: start() can be called on an instance
\* that listens.
start(s) ==
    /\ role = "server"
    /\ NoStopRunning
    /\ Calls < MaxCalls /\ Inputs < MaxInputs
    /\ srv' = RunLoop([srv EXCEPT ![s].pc = "start_server", ![s].calls = @ + 1])
    /\ UNCHANGED <<role, next_client_id, clients, tasks, cl, fieldVars>>

\* Inside that run of the loop start_server binds a socket, which listens from
\* then on; self.server is not assigned yet. With port 0 any free port is
\* taken; a fixed port must not be held by a socket of the instance.
start_listen(s) ==
    /\ srv[s].pc = "start_server"
    /\ srv[s].port = "fixed" => ~Listens(s)
    /\ srv' = [srv EXCEPT ![s].pc = "start_listening"]
    /\ UNCHANGED <<role, next_client_id, clients, tasks, cl, fieldVars>>

\* The fixed port is held by a socket of the instance: start_server raises
\* OSError, start() raises it and line 92 assigns nothing.
start_raises(s) ==
    /\ srv[s].pc = "start_server"
    /\ srv[s].port = "fixed" /\ Listens(s)
    /\ NoneDue
    /\ srv' = [srv EXCEPT ![s].pc = "idle"]
    /\ UNCHANGED <<role, next_client_id, clients, tasks, cl, fieldVars>>

\* run_until_complete returns and line 92 assigns self.server. The socket
\* self.server referred to before, if it listens, goes on listening with no
\* reference to it left.
start_return(s) ==
    /\ srv[s].pc = "start_listening"
    /\ NoneDue
    /\ srv' = [srv EXCEPT ![s].server = TRUE, ![s].listening = TRUE,
                          ![s].leaked = @ \/ srv[s].listening,
                          ![s].pc = "idle"]
    /\ UNCHANGED <<role, next_client_id, clients, tasks, cl, fieldVars>>

\* BattleshipServer.stop(), lines 102-104: self.server.close() closes the
\* listening socket self.server refers to; run_until_complete(wait_closed())
\* then runs the loop, during which the receive tasks go on. (With self.server
\* None, stop() does nothing.)
stop_closeKeepsListening(s) ==
    /\ NoStopRunning
    /\ Calls < MaxCalls /\ Inputs < MaxInputs
    /\ srv[s].server
    /\ srv' = RunLoop([srv EXCEPT ![s].pc = "wait_closed", ![s].calls = @ + 1])
    /\ UNCHANGED <<role, next_client_id, clients, tasks, cl, fieldVars>>

stop_close(s) ==
    /\ NoStopRunning
    /\ Calls < MaxCalls /\ Inputs < MaxInputs
    /\ srv[s].server
    /\ srv' = RunLoop([srv EXCEPT ![s].listening = FALSE, ![s].pc = "wait_closed",
                                  ![s].calls = @ + 1])
    /\ UNCHANGED <<role, next_client_id, clients, tasks, cl, fieldVars>>

\* BattleshipServer.stop() called by a callback, that is with the loop running:
\* line 103 closes the socket, run_until_complete at line 104 raises
\* RuntimeError and line 105 is not reached. (start() called by a callback
\* raises the same at line 92 and changes nothing.)
stop_raises(s) ==
    /\ Calls < MaxCalls /\ Inputs < MaxInputs
    /\ srv[s].server
    /\ srv' = [srv EXCEPT ![s].listening = FALSE, ![s].calls = @ + 1]
    /\ UNCHANGED <<role, next_client_id, clients, tasks, cl, fieldVars>>

\* BattleshipServer.stop(), line 105: wait_closed() is over, self.server = None
\* and stop() returns. A connection made during the run, on a socket that
\* still listens, can be outstanding.
stop_return(s) ==
    /\ srv[s].pc = "wait_closed"
    /\ NoneDue
    /\ srv' = [srv EXCEPT ![s].server = FALSE, ![s].pc = "idle"]
    /\ UNCHANGED <<role, next_client_id, clients, tasks, cl, fieldVars>>

\* A peer connects to a listening socket of s, asyncio accepts the connection
\* and makes its transport. (A connection whose transport is not made when the
\* socket is closed is dropped by asyncio and never reaches _accept_client.)
PeerConnect(s) ==
    /\ Listens(s)
    /\ Len(tasks) + Pending < MaxTasks
    /\ srv' = [srv EXCEPT ![s].pending = @ + 1]
    /\ UNCHANGED <<role, next_client_id, clients, tasks, cl, fieldVars>>

\* BattleshipServer._accept_client(reader, writer) for a connection accepted
\* on a listening socket of s, which may have been closed since; the calls
\* are made in the order scheduled. kind is what client_connected_callback
\* returns as message handler. Lines 77-83 in order: the task, the client
\* record (which takes an id), the registry entry, the callback, the check,
\* and only then the done callback.
accept_client(s, kind) ==
    /\ srv[s].pending > 0
    /\ LET t == Len(tasks) + 1
           made == BattleshipServerClient_init(next_client_id)
           registry == DictPut(clients[s], t, made[1])
           task == [NewTask("server", s, made[1], kind) EXCEPT
                       !.connSaw = t \in DOMAIN registry]
       IN  /\ next_client_id' = made[2]
           /\ clients' = [clients EXCEPT ![s] = registry]
           /\ tasks' = Append(tasks,
                              IF ~iscoroutinefunction(kind)
                              THEN task                      \* raise TypeError
                              ELSE add_done_callback(task))
           /\ srv' = [srv EXCEPT ![s].pending = @ - 1,
                                 ![s].due = IF @ > 0 THEN @ - 1 ELSE 0]
    /\ UNCHANGED <<role, cl, fieldVars>>

\* internal_client_done(task): the done callback of a server-side task.
internal_client_doneKeepsEntry(t) ==
    /\ tasks[t].side = "server"
    /\ tasks[t].state = "finishing"
    /\ tasks' = [tasks EXCEPT ![t].notified = @ + 1, ![t].state = "done"]
    /\ UNCHANGED <<role, next_client_id, srv, clients, cl, fieldVars>>

\* The same with the two lines in the other order: the entry is deleted, then
\* the callback is called.
internal_client_doneDeletesFirst(t) ==
    LET registry == DictDel(clients[tasks[t].owner], t) IN
    /\ tasks[t].side = "server"
    /\ tasks[t].state = "finishing"
    /\ t \in DOMAIN clients[tasks[t].owner]
    /\ clients' = [clients EXCEPT ![tasks[t].owner] = registry]
    /\ tasks' = [tasks EXCEPT ![t].notified = @ + 1,
                              ![t].discSaw = t \in DOMAIN registry,
                              ![t].state = "done"]
    /\ UNCHANGED <<role, next_client_id, srv, cl, fieldVars>>

\* Line 73 calls external_disconnected_callback(), line 74 deletes the entry.
internal_client_done(t) ==
    /\ tasks[t].side = "server"
    /\ tasks[t].state = "finishing"
    /\ t \in DOMAIN clients[tasks[t].owner]          \* else KeyError
    /\ tasks' = [tasks EXCEPT ![t].notified = @ + 1,
                              ![t].discSaw = t \in DOMAIN clients[tasks[t].owner],
                              ![t].state = "done"]
    /\ clients' = [clients EXCEPT ![tasks[t].owner] = DictDel(@, t)]
    /\ UNCHANGED <<role, next_client_id, srv, cl, fieldVars>>

\* BattleshipServerClient.send(msg): await msg.send(self.writer), whatever
\* the state of the session.
ServerClient_send(t) ==
    /\ tasks[t].side = "server"
    /\ SendCalls < MaxSends /\ Inputs < MaxInputs
    /\ tasks' = [tasks EXCEPT ![t] = MsgSend(@)]
    /\ UNCHANGED <<role, next_client_id, srv, clients, cl, fieldVars>>

\* The owner of a client record closes its writer (a local close on the server).
ServerClient_close(t) ==
    /\ tasks[t].side = "server"
    /\ tasks' = [tasks EXCEPT ![t].writerClosed = TRUE]
    /\ UNCHANGED <<role, next_client_id, srv, clients, cl, fieldVars>>

----------------------------------------------------------------------------
(* BattleshipClient *)

NoClient == [made |-> FALSE, kind |-> "none", writer |-> 0, receiving_task |-> 0]

\* BattleshipClient.__init__: a message callback that is no coroutine function
\* raises TypeError and no object comes to exist.
Client_init(kind) ==
    /\ role = "client"
    /\ ~cl.made
    /\ cl' = IF ~iscoroutinefunction(kind)
             THEN cl
             ELSE [made |-> TRUE, kind |-> kind, writer |-> 0, receiving_task |-> 0]
    /\ UNCHANGED <<role, next_client_id, srv, clients, tasks, fieldVars>>

\* BattleshipClient.connect(): open_connection, then the receive task with
\* _server_closed_connection as its done callback.
connectNoDoneCallback ==
    /\ cl.made
    /\ Len(tasks) < MaxTasks
    /\ LET t == Len(tasks) + 1 IN
       /\ tasks' = Append(tasks, NewTask("client", "client", 0, cl.kind))
       /\ cl' = [cl EXCEPT !.writer = t, !.receiving_task = t]
    /\ UNCHANGED <<role, next_client_id, srv, clients, fieldVars>>

connect ==
    /\ cl.made
    /\ Len(tasks) < MaxTasks
    /\ LET t == Len(tasks) + 1 IN
       /\ tasks' = Append(tasks,
                          add_done_callback(NewTask("client", "client", 0, cl.kind)))
       /\ cl' = [cl EXCEPT !.writer = t, !.receiving_task = t]
    /\ UNCHANGED <<role, next_client_id, srv, clients, fieldVars>>

\* BattleshipClient._server_closed_connection(task): self.closed_callback().
server_closed_connection(t) ==
    /\ tasks[t].side = "client"
    /\ tasks[t].state = "finishing"
    /\ tasks' = [tasks EXCEPT ![t].notified = @ + 1, ![t].state = "done"]
    /\ UNCHANGED <<role, next_client_id, srv, clients, cl, fieldVars>>

\* BattleshipClient.send(msg): await msg.send(self.writer), whatever the
\* state of the session.
\* (Before connect() self.writer is None and the call raises AttributeError.)
Client_send ==
    /\ cl.writer # 0
    /\ SendCalls < MaxSends /\ Inputs < MaxInputs
    /\ tasks' = [tasks EXCEPT ![cl.writer] = MsgSend(@)]
    /\ UNCHANGED <<role, next_client_id, srv, clients, cl, fieldVars>>

\* BattleshipClient.close(): self.writer.close().
Client_close ==
    /\ cl.writer # 0
    /\ tasks' = [tasks EXCEPT ![cl.writer].writerClosed = TRUE]
    /\ UNCHANGED <<role, next_client_id, srv, clients, cl, fieldVars>>

----------------------------------------------------------------------------
(* Ship, Battleship and Battlefield *)

Directions == {"up", "down", "left", "right"}

\* Battleship.__init__(ship_id, x_pos, y_pos): a ship of 5 x 1 cells, undamaged.
\* damage holds the ship's cells that were hit, as offsets from its origin.
Battleship(ship_id, x_pos, y_pos) ==
    [ship_id |-> ship_id, ship_type |-> "Battleship",
     x_pos |-> x_pos, y_pos |-> y_pos,
     x_length |-> BattleshipXLength, y_length |-> BattleshipYLength,
     damage |-> {}]

\* The cells a ship occupies: origin plus extents.
Occupies(ship, x, y) ==
    /\ ship.x_pos =< x /\ x < ship.x_pos + ship.x_length
    /\ ship.y_pos =< y /\ y < ship.y_pos + ship.y_length

\* Ship.strikeAtPosition(x, y): <<hit, the ship afterwards>>.
strikeAtPosition(ship, x, y) ==
    IF Occupies(ship, x, y)
    THEN <<TRUE, [ship EXCEPT !.damage = @ \cup {<<x - ship.x_pos, y - ship.y_pos>>}]>>
    ELSE <<FALSE, ship>>

\* The ship translated by one cell.
Translated(ship, d) ==
    CASE d = "up"    -> [ship EXCEPT !.y_pos = @ - 1]
      [] d = "down"  -> [ship EXCEPT !.y_pos = @ + 1]
      [] d = "left"  -> [ship EXCEPT !.x_pos = @ - 1]
      [] d = "right" -> [ship EXCEPT !.x_pos = @ + 1]

\* All cells of the ship lie in the grid of the given side.
InBounds(ship, length) ==
    /\ 0 =< ship.x_pos /\ ship.x_pos + ship.x_length =< length
    /\ 0 =< ship.y_pos /\ ship.y_pos + ship.y_length =< length

\* Ship.move(direction): <<moved, the ship afterwards>>. The call carries the
\* direction and nothing else, and Battleship.__init__ hands Ship.__init__ the
\* id, the type, the position and the extents: the bounds the ship validates
\* against are those it has of its own (bounds), not the length of the
\* battlefield that holds it.
Ship_move(ship, d, bounds) ==
    IF InBounds(Translated(ship, d), bounds)
    THEN <<TRUE, Translated(ship, d)>>
    ELSE <<FALSE, ship>>

\* Battlefield.strike(x_pos, y_pos), the loop from ship i on:
\* <<return value, the ship list afterwards>>.
RECURSIVE strikeFrom(_, _, _, _)
strikeFrom(sh, i, x, y) ==
    IF i > Len(sh) THEN <<FALSE, sh>>
    ELSE LET r == strikeAtPosition(sh[i], x, y)
         IN  IF r[1] THEN <<TRUE, [sh EXCEPT ![i] = r[2]]>>
             ELSE strikeFrom([sh EXCEPT ![i] = r[2]], i + 1, x, y)

strikeMissReturnsTrue(sh, x, y) == <<TRUE, strikeFrom(sh, 1, x, y)[2]>>

strike(sh, x, y) == strikeFrom(sh, 1, x, y)

\* Battlefield.move(ship_id, direction), the loop from ship i on:
\* <<return value, the ship list afterwards>>. The first ship with the id
\* decides; without one the method falls off its end and returns None.
RECURSIVE moveFrom(_, _, _, _, _)
moveFrom(sh, i, ship_id, d, bounds) ==
    IF i > Len(sh) THEN <<"None", sh>>
    ELSE IF sh[i].ship_id = ship_id
         THEN LET r == Ship_move(sh[i], d, bounds)
              IN  IF r[1] THEN <<"True", [sh EXCEPT ![i] = r[2]]>>
                  ELSE <<"False", [sh EXCEPT ![i] = r[2]]>>
         ELSE moveFrom(sh, i + 1, ship_id, d, bounds)

move(sh, ship_id, d, bounds) == moveFrom(sh, 1, ship_id, d, bounds)

PyBool(b) == IF b THEN "True" ELSE "False"

\* [[length], [length]]: the list both matrices are initialised with, a list of
\* two lists of one element each.
NewMatrix(length) == <<<<length>>, <<length>>>>

\* list[i] of Python: the indices of a list l run from -len(l) to len(l) - 1,
\* the negative ones counting from the end; any other index raises IndexError.
HasIndex(l, i) == -Len(l) <= i /\ i < Len(l)

GetItem(l, i) == IF i >= 0 THEN l[i + 1] ELSE l[Len(l) + i + 1]

\* The length the battlefield was constructed with, read from where
\* Battlefield.__init__ put it: the first cell of the matrix.
GivenLength == GetItem(GetItem(my_battlefield, 0), 0)

\* Battlefield.shoot(x_pos, y_pos) on the matrix: its return value, or the
\* exception the subscripts of its first comparison raise.
shoot(matrix, x_pos, y_pos) ==
    IF x_pos * y_pos >= Len(matrix)
    THEN IF ~HasIndex(matrix, x_pos) THEN "IndexError"
         ELSE IF ~HasIndex(GetItem(matrix, x_pos), y_pos) THEN "IndexError"
         ELSE LET cell == GetItem(GetItem(matrix, x_pos), y_pos) IN
              IF cell = 0 THEN "True"
              ELSE IF cell = 1 THEN "True"
              ELSE IF cell = 2 THEN "True"
              ELSE "False"
    ELSE "False"

\* lastOp: the call, its arguments, its return value and the ships before it.
NoOp ==
    [op |-> "none", x |-> 0, y |-> 0, ship_id |-> 0, dir |-> "none",
     ret |-> "none", before |-> <<>>]

\* The opponent's strike at (x, y) is offered to the battlefield.
Strike(x, y) ==
    LET r == strike(ships, x, y) IN
    /\ nOps < MaxOps
    /\ nOps' = nOps + 1
    /\ ships' = r[2]
    /\ lastOp' = [NoOp EXCEPT !.op = "strike", !.x = x, !.y = y, !.ret = PyBool(r[1]),
                           !.before = ships]
    /\ UNCHANGED <<ship_bounds, my_battlefield, enemy_battlefield, netVars>>

\* The owner moves one of its ships: the battlefield hands the ship the
\* direction; the length it was constructed with is not at hand.
Move(ship_id, d) ==
    LET r == move(ships, ship_id, d, ship_bounds) IN
    /\ nOps < MaxOps
    /\ nOps' = nOps + 1
    /\ ships' = r[2]
    /\ lastOp' = [NoOp EXCEPT !.op = "move", !.ship_id = ship_id, !.dir = d, !.ret = r[1],
                           !.before = ships]
    /\ UNCHANGED <<ship_bounds, my_battlefield, enemy_battlefield, netVars>>

\* The owner asks whether it may shoot at (x, y) of the opponent's battlefield.
Shoot(x, y) ==
    /\ nOps < MaxOps
    /\ nOps' = nOps + 1
    /\ lastOp' = [NoOp EXCEPT !.op = "shoot", !.x = x, !.y = y,
                           !.ret = shoot(enemy_battlefield, x, y), !.before = ships]
    /\ UNCHANGED <<ship_bounds, ships, my_battlefield, enemy_battlefield, netVars>>

----------------------------------------------------------------------------
(* The specifications *)

\* BattleshipServer.__init__: self.server = None; nothing listens.
NoServer(port) ==
    [port |-> port, server |-> FALSE, listening |-> FALSE, leaked |-> FALSE,
     pc |-> "idle", pending |-> 0, due |-> 0, calls |-> 0]

\* No server is started, no connection exists, no client object is made.
NetIdle ==
    /\ next_client_id = 1
    /\ srv = [s \in Servers |-> NoServer(Ports[s])]
    /\ clients = [s \in Servers |-> <<>>]
    /\ tasks = <<>>
    /\ cl = NoClient

\* The process is the server (with its BattleshipServer objects constructed)
\* or a client.
NetInit ==
    /\ role \in {"server", "client"}
    /\ NetIdle

\* The process is the server.
TrafficInit ==
    /\ role = "server"
    /\ NetIdle

NoNet ==
    /\ role = "none"
    /\ NetIdle

\* Where the Battleships handed to Battlefield.__init__ are: at the left edge
\* of the first two rows, or one cell past the place from which a Battleship
\* still fits in the smaller battlefield. No constructor compares a position
\* with a length or with the other ships: a ship may reach over the edge, and
\* two ships may cover the same cells. Move takes them to the other places.
Placements == {<<0, 0>>, <<0, 1>>, <<FieldLen - BattleshipXLength + 1, 0>>}

Fleets ==
    {[i \in 1..MaxShips |-> Battleship(i, p[i][1], p[i][2])] :
        p \in [1..MaxShips -> Placements]}

\* Battlefield.__init__(length, ships): the ships are kept, the length goes
\* into the cells of the two matrices and is kept nowhere else. The bounds of
\* the ships are fixed before, whatever the length is.
FieldInit ==
    /\ ship_bounds \in Lengths
    /\ nOps = 0
    /\ ships \in Fleets
    /\ \E length \in Lengths :
          /\ my_battlefield = NewMatrix(length)
          /\ enemy_battlefield = NewMatrix(length)
    /\ lastOp = NoOp

NoField ==
    /\ ship_bounds = FieldLen
    /\ nOps = 0
    /\ ships = <<>>
    /\ my_battlefield = <<>>
    /\ enemy_battlefield = <<>>
    /\ lastOp = NoOp

NetNext ==
    \/ \E s \in Servers : start(s)
    \/ \E s \in Servers : start_listen(s)
    \/ \E s \in Servers : start_raises(s)
    \/ \E s \in Servers : start_return(s)
    \/ \E s \in Servers : PeerConnect(s)
    \/ \E s \in Servers : stop_close(s)
    \/ \E s \in Servers : stop_raises(s)
    \/ \E s \in Servers : stop_return(s)
    \/ \E s \in Servers, kind \in CallbackKinds : accept_client(s, kind)
    \/ \E kind \in CallbackKinds : Client_init(kind)
    \/ connect
    \/ Client_send
    \/ Client_close
    \/ \E t \in TaskIds, good \in BOOLEAN : PeerWriteWithin(t, good)
    \/ \E t \in TaskIds : PeerClose(t)
    \/ \E t \in TaskIds : RecvMessage(t)
    \/ \E t \in TaskIds : RecvGarbage(t)
    \/ \E t \in TaskIds : RecvEof(t)
    \/ \E t \in TaskIds : RecvClosed(t)
    \/ \E t \in TaskIds : internal_client_done(t)
    \/ \E t \in TaskIds : server_closed_connection(t)
    \/ \E t \in TaskIds : ServerClient_send(t)
    \/ \E t \in TaskIds : ServerClient_close(t)

\* The server with its connections and their incoming traffic: every peer
\* writes up to MaxFrames frames, whatever the others do.
TrafficNext ==
    \/ \E s \in Servers : start(s)
    \/ \E s \in Servers : start_listen(s)
    \/ \E s \in Servers : start_raises(s)
    \/ \E s \in Servers : start_return(s)
    \/ \E s \in Servers : PeerConnect(s)
    \/ \E s \in Servers, kind \in CallbackKinds : accept_client(s, kind)
    \/ \E t \in TaskIds, good \in BOOLEAN : PeerWrite(t, good)
    \/ \E t \in TaskIds : PeerClose(t)
    \/ \E t \in TaskIds : RecvMessage(t)
    \/ \E t \in TaskIds : RecvGarbage(t)
    \/ \E t \in TaskIds : RecvEof(t)
    \/ \E t \in TaskIds : internal_client_done(t)

FieldNext ==
    \/ \E x \in 0..FieldLen, y \in 0..FieldLen : Strike(x, y)
    \/ \E id \in 1..(MaxShips + 1), d \in Directions : Move(id, d)
    \/ \E x \in ShotCoords, y \in ShotCoords : Shoot(x, y)

NetSpecInit == NetInit /\ NoField

TrafficSpecInit == TrafficInit /\ NoField

FieldSpecInit == NoNet /\ FieldInit

NetSpec == NetSpecInit /\ [][NetNext]_vars

TrafficSpec == TrafficSpecInit /\ [][TrafficNext]_vars

FieldSpec == FieldSpecInit /\ [][FieldNext]_vars

----------------------------------------------------------------------------
(* Claims about the network session layer, under NetSpec (C4: TrafficSpec) *)

ServerTasks == {t \in TaskIds : tasks[t].side = "server"}

ClientTasks == {t \in TaskIds : tasks[t].side = "client"}

Registered(t) == t \in DOMAIN clients[tasks[t].owner]

\* C1: every connection accepted by _accept_client has its external disconnect
\* callback invoked exactly once over its lifetime: never twice, and once its
\* receive task is over and the loop has run the callbacks, not zero times.
C1_DisconnectExactlyOnce ==
    \A t \in ServerTasks :
        /\ tasks[t].notified =< 1
        /\ tasks[t].state = "done" => tasks[t].notified = 1

\* C2: the ids of the client records increase strictly in the order of
\* creation, an id once given is never given again, and no two connections
\* in the registries (of the same or of different servers) share an id.
C2_IdsIncreasingUnique ==
    /\ \A t, u \in ServerTasks : t < u => tasks[t].id < tasks[u].id
    /\ \A t \in ServerTasks : tasks[t].id < next_client_id
    /\ \A s, r \in Servers :
         \A t \in DOMAIN clients[s], u \in DOMAIN clients[r] :
            (s # r \/ t # u) => clients[s][t] # clients[r][u]

\* Two connections accepted by different servers, the first already gone from
\* its registry, the second still open.
C2_Witness ==
    /\ Len(tasks) = 2
    /\ tasks[1].side = "server" /\ tasks[2].side = "server"
    /\ tasks[1].owner # tasks[2].owner
    /\ tasks[1].state = "done" /\ ~Registered(1)
    /\ tasks[2].state = "running" /\ Registered(2)

\* C3: the registry holds an entry for a session exactly as long as the
\* session's receive task has not ended: present while the task runs, gone
\* once the task is over and the loop has run its callbacks.
C3_RegistryIffLive ==
    \A t \in ServerTasks :
        /\ tasks[t].state = "running" => Registered(t)
        /\ tasks[t].state = "done" => ~Registered(t)

\* C4: whatever the interleaving, the message callback of a connection has
\* received a prefix of the messages written on that connection, in the order
\* written, all of them once the task has read end-of-stream, and never a
\* message of another connection.
C4_InOrderOwnMessages ==
    \A t \in TaskIds :
        /\ IsPrefix(tasks[t].received, Sent(t))
        /\ \A i \in 1..Len(tasks[t].received) : tasks[t].received[i][1] = t
        /\ (tasks[t].state # "running" /\ tasks[t].cause = "eof")
              => tasks[t].received = Sent(t)

\* Two server connections open together, on each of which the peer has
\* written MaxFrames messages, in whatever order with those of the other, and
\* each callback has received the messages of its own connection, in order.
C4_Witness ==
    /\ Len(tasks) = 2
    /\ \A t \in 1..2 :
         /\ tasks[t].side = "server"
         /\ tasks[t].state = "running"
         /\ tasks[t].nsent = MaxFrames
         /\ tasks[t].received = [i \in 1..MaxFrames |-> <<t, i>>]

Closed(ts, t) == ts[t].state # "running" \/ ts[t].writerClosed

\* C5: a closed session (receive task over, or close() called) stays closed,
\* nothing is written to its stream any more, and a send on it fails with
\* ConnectionClosed.
C5_ClosedIsTerminal ==
    [][\A t \in TaskIds :
          Closed(tasks, t) =>
            /\ Closed(tasks', t)
            /\ tasks'[t].out = tasks[t].out
            /\ (ServerClient_send(t) \/ (cl.writer = t /\ Client_send))
                  => tasks'[t].refused = tasks[t].refused + 1]_vars

\* C6: a message callback that is no coroutine function is rejected before any
\* connection work: no client object, and on the server no receive task, no
\* id taken and no registry entry for that connection.
C6_RejectedBeforeWork ==
    /\ cl.made => iscoroutinefunction(cl.kind)
    /\ \A t \in TaskIds : iscoroutinefunction(tasks[t].kind)
    /\ next_client_id = 1 + Cardinality({t \in ServerTasks : iscoroutinefunction(tasks[t].kind)})
    /\ \A s \in Servers : \A t \in DOMAIN clients[s] : iscoroutinefunction(tasks[t].kind)

\* C7: when stop() returns no socket of the server listens, no connection is
\* accepted for a server whose stop() has returned, and the steps of stop()
\* change neither a session nor the registry.
C7_StopOnlyStopsListening ==
    [][\A s \in Servers :
          /\ (srv[s].pc = "wait_closed" /\ srv'[s].pc = "idle") => ~Listens(s)'
          /\ (\/ srv'[s].pending > srv[s].pending
              \/ Len(tasks') > Len(tasks) /\ tasks'[Len(tasks')].owner = s)
                => (srv[s].server \/ srv[s].pc # "idle")
          /\ (srv'[s].pc # srv[s].pc \/ srv'[s].listening # srv[s].listening)
                => (tasks' = tasks /\ clients' = clients)]_vars

\* stop() has returned on a server that still has a running, registered session.
C7_Witness ==
    \E t \in ServerTasks :
        /\ ~srv[tasks[t].owner].server
        /\ ~srv[tasks[t].owner].listening
        /\ srv[tasks[t].owner].pc = "idle"
        /\ tasks[t].state = "running"
        /\ Registered(t)

\* C8: closed_callback is invoked exactly once per connection opened by
\* connect(), and only after the receive task has ended.
C8_ClosedCallbackOnce ==
    \A t \in ClientTasks :
        tasks[t].notified = IF tasks[t].state = "done" THEN 1 ELSE 0

\* Two connections of the client, one ended by a local close() and one by the
\* server, each with its one notification.
C8_Witness ==
    /\ Len(tasks) = 2
    /\ \A t \in 1..2 : tasks[t].side = "client" /\ tasks[t].notified = 1
    /\ {tasks[1].cause, tasks[2].cause} = {"closed", "eof"}

----------------------------------------------------------------------------
(* Claims about the battlefield, under FieldSpec *)

ShipIndexes == 1..Len(ships)

\* The ships of the list sh that occupy (x, y).
Occupants(sh, x, y) == {i \in 1..Len(sh) : Occupies(sh[i], x, y)}

\* Ship b is ship a with its cell at (x, y) recorded as hit and nothing else changed.
HitAt(a, b, x, y) ==
    b = [a EXCEPT !.damage = @ \cup {<<x - a.x_pos, y - a.y_pos>>}]

\* The last call was strike(x, y) on the ships lastOp.before; of these, exactly
\* ship i changed, at the struck cell.
OnlyShipHit(i) ==
    /\ lastOp.ret = "True"
    /\ HitAt(lastOp.before[i], ships[i], lastOp.x, lastOp.y)
    /\ \A j \in ShipIndexes \ {i} : ships[j] = lastOp.before[j]

\* C9 as stated: strike(x, y) on a cell occupied by ship s returns true and
\* changes the damage of s alone, at that cell, for every such ship s.
C9_StrikeHitsOccupant ==
    lastOp.op = "strike" =>
        \A i \in Occupants(lastOp.before, lastOp.x, lastOp.y) : OnlyShipHit(i)

\* C10: strike(x, y) on a cell that no ship occupies returns false and leaves
\* the damage and the position of every ship as they were.
C10_MissChangesNothing ==
    (lastOp.op = "strike" /\ Occupants(lastOp.before, lastOp.x, lastOp.y) = {}) =>
        /\ lastOp.ret = "False"
        /\ ships = lastOp.before

\* A strike inside the grid that misses a fleet with a ship already damaged.
C10_Witness ==
    /\ lastOp.op = "strike"
    /\ lastOp.x < GivenLength /\ lastOp.y < GivenLength
    /\ Occupants(lastOp.before, lastOp.x, lastOp.y) = {}
    /\ lastOp.ret = "False"
    /\ \E i \in ShipIndexes : ships[i].damage # {}


\* The cells of a ship, and the cells of a battlefield of the given side.
Cells(ship) ==
    {<<ship.x_pos + dx, ship.y_pos + dy>> :
        dx \in 0..(ship.x_length - 1), dy \in 0..(ship.y_length - 1)}

Grid(length) == (0..(length - 1)) \X (0..(length - 1))

\* The ships of the list sh that carry the identifier id.
WithId(sh, id) == {i \in 1..Len(sh) : sh[i].ship_id = id}

\* C11: a move of a ship returns true and translates the ship by one cell
\* exactly when all cells of the translated ship lie inside the battlefield,
\* else it returns false and leaves the position; and no ship ever has a cell
\* outside the battlefield.
C11_MoveIffInside ==
    /\ \A i \in ShipIndexes : Cells(ships[i]) \subseteq Grid(GivenLength)
    /\ lastOp.op = "move" =>
         \A i \in WithId(lastOp.before, lastOp.ship_id) :
            LET was == lastOp.before[i]
                to == Translated(was, lastOp.dir)
            IN  IF Cells(to) \subseteq Grid(GivenLength)
                THEN lastOp.ret = "True" /\ ships[i] = to
                ELSE lastOp.ret = "False" /\ ships[i] = was

\* C12: move(shipId, direction) returns false and moves nothing when no ship
\* has the identifier; when one has, the result is that of this ship's move
\* and no other ship is moved.
C12_MoveByIdentifier ==
    lastOp.op = "move" =>
        IF WithId(lastOp.before, lastOp.ship_id) = {}
        THEN lastOp.ret = "False" /\ ships = lastOp.before
        ELSE \E i \in WithId(lastOp.before, lastOp.ship_id) :
                /\ lastOp.ret = PyBool(ships[i] # lastOp.before[i])
                /\ \A j \in ShipIndexes \ {i} : ships[j] = lastOp.before[j]

\* What the enemy matrix records for the cell (x, y) of the grid: 0 (hidden)
\* where the matrix has no such cell.
Recorded(matrix, x, y) ==
    IF x + 1 \in DOMAIN matrix /\ y + 1 \in DOMAIN matrix[x + 1]
    THEN matrix[x + 1][y + 1]
    ELSE 0

\* C13: shoot returns false, and raises nothing, for every coordinate outside
\* the grid and for every cell already recorded as hit (1) or miss (2); it
\* returns true for every cell of the grid that is hidden; the battlefield is
\* as it was after a rejected shot.
C13_ShootAcceptsHiddenCells ==
    lastOp.op = "shoot" =>
        /\ lastOp.ret \in {"True", "False"}
        /\ lastOp.ret = "True" <=>
              /\ <<lastOp.x, lastOp.y>> \in Grid(GivenLength)
              /\ Recorded(enemy_battlefield, lastOp.x, lastOp.y) \notin {1, 2}
        /\ ships = lastOp.before

\* The matrices as rows of cells.
Rows(matrix) == {matrix[r] : r \in DOMAIN matrix}

MatrixCells(matrix) == UNION {{row[c] : c \in DOMAIN row} : row \in Rows(matrix)}

\* C15: both matrices have length rows of length cells, and every cell of the
\* enemy matrix is 0 (hidden), 1 (hit) or 2 (miss), all hidden at the start.
C15_GridsAreLengthSquare ==
    /\ \A matrix \in {my_battlefield, enemy_battlefield} :
          /\ Len(matrix) = GivenLength
          /\ \A row \in Rows(matrix) : Len(row) = GivenLength
    /\ MatrixCells(enemy_battlefield) \subseteq {0, 1, 2}
    /\ nOps = 0 => MatrixCells(enemy_battlefield) = {0}

\* The step from a successful move to the strike that follows it.
StrikeAfterMove ==
    /\ lastOp.op = "move" /\ lastOp.ret = "True"
    /\ lastOp'.op = "strike"

\* The ship the last call moved, and the cells it left.
Moved == WithId(lastOp.before, lastOp.ship_id)

Vacated(i) == Cells(lastOp.before[i]) \ Cells(ships[i])

\* C14 as stated: after a successful move of a ship by one cell, strike on a
\* cell the ship vacated returns false and strike on a cell of its translated
\* footprint returns true.
C14_StrikeAfterMove ==
    [][StrikeAfterMove =>
        \A i \in Moved :
            /\ <<lastOp'.x, lastOp'.y>> \in Vacated(i) => lastOp'.ret = "False"
            /\ <<lastOp'.x, lastOp'.y>> \in Cells(ships[i]) => lastOp'.ret = "True"]_vars

\* Task t of the server takes a step of its end, by a decode error or by the
\* end or failure of its connection.
FailsIn(t) ==
    /\ tasks[t].side = "server"
    /\ tasks'[t] # tasks[t]
    /\ tasks'[t].state # "running"
    /\ tasks'[t].cause \in {"decode", "eof"}

\* C16: a decode error or a connection failure on a server connection ends its
\* receive task, fires its disconnect callback and removes its registry entry;
\* every other connection, its task, its handlers and its registry entry stay
\* as they are, and no connection is made in its place.
C16_FailureIsLocal ==
    [][\A t \in DOMAIN tasks :
        FailsIn(t) =>
            /\ DOMAIN tasks' = DOMAIN tasks
            /\ \A u \in DOMAIN tasks \ {t} :
                  /\ tasks'[u] = tasks[u]
                  /\ \A s \in Servers : u \in DOMAIN clients'[s] <=> u \in DOMAIN clients[s]
            /\ tasks'[t].state = "done" =>
                  /\ tasks'[t].notified = 1
                  /\ \A s \in Servers : t \notin DOMAIN clients'[s]]_vars

\* The receive tasks that have not ended.
Live(T) == {t \in T : tasks[t].state = "running"}

\* C17: every accepted connection of a server has one receive task, keyed in
\* the registry of that server while it is live, and the BattleshipClient has
\* at most one live receive task, with its done callback, whatever calls of
\* connect() and close() were made.
C17_OneReceiveTask ==
    /\ \A s \in Servers : \A t \in DOMAIN clients[s] :
          tasks[t].side = "server" /\ tasks[t].owner = s
    /\ \A t \in Live(ServerTasks) : Registered(t)
    /\ Cardinality(Live(ClientTasks)) =< 1
    /\ \A t \in Live(ClientTasks) : tasks[t].doneCb /\ cl.receiving_task = t

\* C18: on a server connection no message is dispatched before
\* client_connected_callback has returned the handlers, every message
\* dispatched reaches the handler returned for that connection, and the task
\* does not finish before its done callback is registered.
C18_HandlersBeforeMessages ==
    \A t \in ServerTasks :
        /\ tasks[t].received # <<>> => tasks[t].kind \in CallbackKinds
        /\ \A i \in 1..Len(tasks[t].received) : tasks[t].received[i][1] = t
        /\ tasks[t].state # "running" => tasks[t].doneCb

\* C19: the external disconnect callback of a server-side task is called
\* while the task's entry is still in the registry, and the entry is removed
\* only after the callback, never before or without it; the entry is in the
\* registry when client_connected_callback is called for the connection.
C19_CallbacksSeeTheEntry ==
    \A t \in ServerTasks :
        /\ tasks[t].connSaw
        /\ tasks[t].notified > 0 => tasks[t].discSaw
        /\ Registered(t) <=> tasks[t].notified = 0

\* A server-side task is over, its disconnect callback has been called with
\* the entry in the registry, and the entry is gone.
C19_Witness ==
    \E t \in ServerTasks :
        /\ tasks[t].state = "done"
        /\ tasks[t].notified = 1
        /\ tasks[t].discSaw
        /\ ~Registered(t)

====
